---- MODULE Spec2Model ----
(***************************************************************************)
(* A model of ituring.py: the paging generator, the book lookup, the six   *)
(* command actions and the token file.  Text is modelled as sequences of   *)
(* one-character strings so that formatting, stripping and string          *)
(* comparison are computed, not assumed.                                   *)
(***************************************************************************)
EXTENDS Integers, Sequences, FiniteSets, TLC

VARIABLES
    pc,              \* position of the running process
    action,          \* args.action, the subcommand of this process
    token_file,      \* ituring-access-token.json: whether it exists, its text
    authorization,   \* session.headers["Authorization"]: whether set, the token
    stdout,          \* what the process printed on standard output
    stderr,          \* what the process printed on standard error
    gen_state,       \* expand_paging: "idle", "query", "items", "exhausted"
    index,           \* expand_paging: the local index
    is_last,         \* expand_paging: payload["pagination"]["isLastPage"]
    gen_items,       \* expand_paging: items of payload not yet yielded
    endpoint,        \* which listing the running generator queries
    queries,         \* log: the page requests of the running generator
    served,          \* log: the envelopes the server answered them with
    yielded,         \* log: the items the running generator yielded, in order
    listed,          \* log: per endpoint, how often the server listed each id
    shelf_books,     \* clean_favourite: shelf_books; report: the rows sorted() collects
    favourite_books, \* the same for the favourites
    book_ids,        \* fetch / clean_favourite: the sorted ids not yet processed
    book_id,         \* all_books: local book_id
    failed_count,    \* all_books: local failed_count
    lookups,         \* log: the get_book calls, <<id, result>>
    unfav,           \* log: the ids posted to Book/UnFav, in order
    response         \* login: the authentication response

vars == <<pc, action, token_file, authorization, stdout, stderr, gen_state,
          index, is_last, gen_items, endpoint, queries, served, yielded, listed,
          shelf_books, favourite_books, book_ids, book_id, failed_count,
          lookups, unfav, response>>

\* a missing token file, and a token file holding text
NoFile == [exists |-> FALSE, text |-> <<>>]
File(text) == [exists |-> TRUE, text |-> text]

\* session.headers without and with an Authorization entry
NoAuth == [set |-> FALSE, token |-> <<>>]
Bearer(token) == [set |-> TRUE, token |-> token]

-----------------------------------------------------------------------------
(* Bounds of the model. *)

\* the server answers isLastPage = true on this page at the latest
MaxPages == 2
\* the catalogue has no book with an id above this one
MaxBookId == 2

\* the ids of the books that occur in listings
BookIds == {2, 99999, 100000}

\* the tokens the server hands out
Tokens == {<<"a", "b">>, <<"a", "\"">>, <<"\\">>}

-----------------------------------------------------------------------------
(* Text. *)

Digit == <<"0", "1", "2", "3", "4", "5", "6", "7", "8", "9">>

\* the code point of a character, as Python compares strings
Ord(c) ==
    CASE c = " " -> 32
      [] c = "\"" -> 34
      [] c = "." -> 46
      [] c = "/" -> 47
      [] c \in {Digit[i] : i \in 1..10} -> 47 + (CHOOSE i \in 1..10 : Digit[i] = c)
      [] c = "[" -> 91
      [] c = "\\" -> 92
      [] c = "]" -> 93
      [] OTHER -> 97

RECURSIVE ToDigits(_)
\* str(n) for n >= 0
ToDigits(n) ==
    IF n < 10 THEN <<Digit[n + 1]>>
    ELSE ToDigits(n \div 10) \o <<Digit[(n % 10) + 1]>>

RECURSIVE ZeroPad(_, _)
ZeroPad(s, width) == IF Len(s) >= width THEN s ELSE ZeroPad(<<"0">> \o s, width)

IdWidth == 5

\* "%05d" % n and "{:05}".format(n), n >= 0
Format05d(n) == ZeroPad(ToDigits(n), IdWidth)

RECURSIVE ParseInt(_)
\* int(s) of a digit string
ParseInt(s) ==
    IF s = <<>> THEN 0
    ELSE 10 * ParseInt(SubSeq(s, 1, Len(s) - 1)) + (Ord(s[Len(s)]) - 48)

RECURSIVE StrLess(_, _)
\* a < b on Python strings: lexicographic by code point
StrLess(a, b) ==
    IF b = <<>> THEN FALSE
    ELSE IF a = <<>> THEN TRUE
    ELSE IF a[1] # b[1] THEN Ord(a[1]) < Ord(b[1])
    ELSE StrLess(Tail(a), Tail(b))

IsSpace(c) == c = " "

RECURSIVE LStrip(_)
LStrip(s) == IF s # <<>> /\ IsSpace(s[1]) THEN LStrip(Tail(s)) ELSE s

RECURSIVE RStrip(_)
RStrip(s) ==
    IF s # <<>> /\ IsSpace(s[Len(s)]) THEN RStrip(SubSeq(s, 1, Len(s) - 1)) ELSE s

\* str.strip()
Strip(s) == RStrip(LStrip(s))

RECURSIVE Remove(_, _)
\* s.replace(c, "")
Remove(s, c) ==
    IF s = <<>> THEN <<>>
    ELSE IF s[1] = c THEN Remove(Tail(s), c)
    ELSE <<s[1]>> \o Remove(Tail(s), c)

\* kind.lower() of the three format names
Lower(kind) ==
    CASE kind = "PDF" -> <<"p", "d", "f">>
      [] kind = "EPUB" -> <<"e", "p", "u", "b">>
      [] kind = "MOBI" -> <<"m", "o", "b", "i">>

RECURSIVE JsonEscape(_)
JsonEscape(s) ==
    IF s = <<>> THEN <<>>
    ELSE IF s[1] \in {"\"", "\\"} THEN <<"\\", s[1]>> \o JsonEscape(Tail(s))
    ELSE <<s[1]>> \o JsonEscape(Tail(s))

\* json.dump of a string: the text written to the file
JsonDump(s) == <<"\"">> \o JsonEscape(s) \o <<"\"">>

RECURSIVE JsonUnescape(_)
\* the body of a JSON string literal: [ok, value], ok false when malformed
JsonUnescape(s) ==
    IF s = <<>> THEN [ok |-> TRUE, value |-> <<>>]
    ELSE IF s[1] = "\"" THEN [ok |-> FALSE, value |-> <<>>]
    ELSE IF s[1] = "\\"
         THEN IF Len(s) < 2 \/ s[2] \notin {"\"", "\\"}
              THEN [ok |-> FALSE, value |-> <<>>]
              ELSE LET rest == JsonUnescape(SubSeq(s, 3, Len(s)))
                   IN  [ok |-> rest.ok, value |-> <<s[2]>> \o rest.value]
    ELSE LET rest == JsonUnescape(Tail(s))
         IN  [ok |-> rest.ok, value |-> <<s[1]>> \o rest.value]

\* json.load of the file's text: ok is false for a JSONDecodeError
JsonLoad(text) ==
    IF Len(text) < 2 \/ text[1] # "\"" \/ text[Len(text)] # "\""
    THEN [ok |-> FALSE, value |-> <<>>]
    ELSE JsonUnescape(SubSeq(text, 2, Len(text) - 1))

-----------------------------------------------------------------------------
(* The server: listings and book details. *)

Shelf == "User/ShelfEBook"
Fav == "User/Fav/Books"

\* the name the server gives for a book
NameOf(id) ==
    CASE id = 2 -> <<" ", "a", "/", "b", " ">>
      [] id = 99999 -> <<"/", " ", "a">>
      [] id = 100000 -> <<"a">>
      [] OTHER -> <<" ", "c">>

\* an element of bookItems
Item(id) == [id |-> id, name |-> NameOf(id)]

\* the bookItems a page may carry
PageLists ==
    {<<>>} \cup {<<Item(i)>> : i \in BookIds}
           \cup {<<Item(i), Item(j)>> : i \in BookIds, j \in BookIds}

\* the envelopes the server may answer a page request with
Envelopes(page) ==
    {[bookItems |-> l, isLastPage |-> b] :
        l \in PageLists, b \in (IF page >= MaxPages THEN {TRUE} ELSE BOOLEAN)}

RECURSIVE CountIn(_, _)
\* how many items of the list carry this id
CountIn(l, id) ==
    IF l = <<>> THEN 0
    ELSE (IF l[1].id = id THEN 1 ELSE 0) + CountIn(Tail(l), id)

NothingListed == [e \in {Shelf, Fav} |-> [i \in BookIds |-> 0]]

-----------------------------------------------------------------------------
(* Sorting, as sorted() does it: stable, by < on the keys. *)

RECURSIVE InsertInt(_, _)
InsertInt(x, s) ==
    IF s = <<>> THEN <<x>>
    ELSE IF x < s[Len(s)] THEN Append(InsertInt(x, SubSeq(s, 1, Len(s) - 1)), s[Len(s)])
    ELSE Append(s, x)

RECURSIVE SortedInts(_)
\* sorted(s) of a list of integers
SortedInts(s) ==
    IF s = <<>> THEN <<>>
    ELSE InsertInt(s[Len(s)], SortedInts(SubSeq(s, 1, Len(s) - 1)))

RECURSIVE SetToSeq(_)
\* the elements of a set in some order of iteration
SetToSeq(S) ==
    IF S = {} THEN <<>>
    ELSE LET x == CHOOSE y \in S : TRUE IN <<x>> \o SetToSeq(S \ {x})

\* extract_book_item
extract_book_item(item) == item.id

\* the lambda make_extract_book_item(kind) returns, applied to item
make_extract_book_item(kind, item) ==
    [id |-> Format05d(item.id), name |-> Strip(item.name), kind |-> kind]

\* the comparison sorted(..., key=extract_book_item) makes between two rows
RowLess(a, b) == StrLess(extract_book_item(a), extract_book_item(b))

RECURSIVE InsertRow(_, _)
InsertRow(x, s) ==
    IF s = <<>> THEN <<x>>
    ELSE IF RowLess(x, s[Len(s)])
         THEN Append(InsertRow(x, SubSeq(s, 1, Len(s) - 1)), s[Len(s)])
    ELSE Append(s, x)

RECURSIVE SortedRows(_)
\* sorted(rows, key=extract_book_item)
SortedRows(s) ==
    IF s = <<>> THEN <<>>
    ELSE InsertRow(s[Len(s)], SortedRows(SubSeq(s, 1, Len(s) - 1)))

-----------------------------------------------------------------------------
(* expand_paging. *)

genVars == <<gen_state, index, is_last, gen_items, endpoint, queries, served, yielded>>

\* a call of expand_paging(query): the generator, before its first step
StartGen(ep) ==
    /\ gen_state' = "query"
    /\ index' = 1
    /\ is_last' = FALSE
    /\ gen_items' = <<>>
    /\ endpoint' = ep
    /\ queries' = <<>>
    /\ served' = <<>>
    /\ yielded' = <<>>

\* the generator is dropped
DropGen ==
    /\ gen_state' = "idle"
    /\ index' = 1
    /\ is_last' = FALSE
    /\ gen_items' = <<>>
    /\ endpoint' = Shelf
    /\ queries' = <<>>
    /\ served' = <<>>
    /\ yielded' = <<>>

\* a loop that skips a page
NextIndexSkips(i) == i + 2

\* index += 1
NextIndex(i) == i + 1

\* the test that ends the loop
IsLastPage(env) == env.isLastPage

\* payload = query(index)
Query ==
    /\ pc \notin {"done", "crashed"}
    /\ gen_state = "query"
    /\ \E env \in Envelopes(index) :
          /\ queries' = Append(queries, index)
          /\ served' = Append(served, env)
          /\ listed' = [listed EXCEPT ![endpoint] =
                            [i \in BookIds |-> @[i] + CountIn(env.bookItems, i)]]
          /\ gen_items' = env.bookItems
          /\ is_last' = IsLastPage(env)
    /\ gen_state' = "items"
    /\ UNCHANGED <<pc, action, token_file, authorization, stdout, stderr, index,
                   endpoint, yielded, shelf_books, favourite_books, book_ids,
                   book_id, failed_count, lookups, unfav, response>>

\* the for loop over payload["bookItems"] is over: break, or the next page
PageEnd ==
    /\ pc \notin {"done", "crashed"}
    /\ gen_state = "items"
    /\ gen_items = <<>>
    /\ IF is_last
       THEN gen_state' = "exhausted" /\ index' = index
       ELSE gen_state' = "query" /\ index' = NextIndex(index)
    /\ UNCHANGED <<pc, action, token_file, authorization, stdout, stderr, is_last,
                   gen_items, endpoint, queries, served, yielded, listed,
                   shelf_books, favourite_books, book_ids, book_id, failed_count,
                   lookups, unfav, response>>

\* yield item: the generator's part of a step that hands the consumer an item
CanYield == gen_state = "items" /\ gen_items # <<>>

Yield ==
    /\ gen_items' = Tail(gen_items)
    /\ yielded' = Append(yielded, Head(gen_items))
    /\ UNCHANGED <<gen_state, index, is_last, endpoint, queries, served, listed>>

Exhausted == gen_state = "exhausted"

-----------------------------------------------------------------------------
(* main and set_token. *)

Commands == {"login", "report", "fetch", "clean-favourite", "all-books", "push-books"}

\* the state of a process that has just started
ProcessStart ==
    /\ pc = "main"
    /\ authorization = NoAuth
    /\ stdout = <<>>
    /\ stderr = <<>>
    /\ gen_state = "idle"
    /\ index = 1
    /\ is_last = FALSE
    /\ gen_items = <<>>
    /\ endpoint = Shelf
    /\ queries = <<>>
    /\ served = <<>>
    /\ yielded = <<>>
    /\ listed = NothingListed
    /\ shelf_books = <<>>
    /\ favourite_books = <<>>
    /\ book_ids = <<>>
    /\ book_id = 1
    /\ failed_count = 0
    /\ lookups = <<>>
    /\ unfav = <<>>
    /\ response = [status |-> 0]

\* the token file at the start: none, or what an earlier successful login left
TokenFiles == {NoFile, File(JsonDump(<<"a", "\"">>))}

InitFor(cmd) ==
    /\ action = cmd
    /\ token_file \in TokenFiles
    /\ ProcessStart

\* main: set_token(), then actions[args.action]()
Main ==
    /\ pc = "main"
    /\ IF ~token_file.exists
       THEN pc' = action /\ authorization' = authorization
       ELSE LET token == JsonLoad(token_file.text)
            IN  IF token.ok
                THEN pc' = action /\ authorization' = Bearer(token.value)
                ELSE pc' = "crashed" /\ authorization' = authorization
    /\ UNCHANGED <<action, token_file, stdout, stderr, genVars, listed,
                   shelf_books, favourite_books, book_ids, book_id, failed_count,
                   lookups, unfav, response>>

-----------------------------------------------------------------------------
(* clean_favourite. *)

\* every favourite taken for a purchased book
PurchasedItemsAllFavourites(shelf, favourite) == favourite

\* shelf_books & favourite_books
PurchasedItems(shelf, favourite) == shelf \cap favourite

CleanStart ==
    /\ pc = "clean-favourite"
    /\ pc' = "clean_shelf"
    /\ StartGen(Shelf)
    /\ shelf_books' = {}
    /\ favourite_books' = {}
    /\ UNCHANGED <<action, token_file, authorization, stdout, stderr, listed,
                   book_ids, book_id, failed_count, lookups, unfav, response>>

\* set(map(extract_book_item, get_book_shelf())) takes an item
CleanShelfItem ==
    /\ pc = "clean_shelf"
    /\ CanYield
    /\ Yield
    /\ shelf_books' = shelf_books \cup {extract_book_item(Head(gen_items))}
    /\ UNCHANGED <<pc, action, token_file, authorization, stdout, stderr,
                   favourite_books, book_ids, book_id, failed_count, lookups,
                   unfav, response>>

CleanShelfDone ==
    /\ pc = "clean_shelf"
    /\ Exhausted
    /\ pc' = "clean_fav"
    /\ StartGen(Fav)
    /\ UNCHANGED <<action, token_file, authorization, stdout, stderr, listed,
                   shelf_books, favourite_books, book_ids, book_id, failed_count,
                   lookups, unfav, response>>

\* set(map(extract_book_item, get_favourite())) takes an item
CleanFavItem ==
    /\ pc = "clean_fav"
    /\ CanYield
    /\ Yield
    /\ favourite_books' = favourite_books \cup {extract_book_item(Head(gen_items))}
    /\ UNCHANGED <<pc, action, token_file, authorization, stdout, stderr,
                   shelf_books, book_ids, book_id, failed_count, lookups, unfav,
                   response>>

\* purchased_items = shelf_books & favourite_books; sorted(purchased_items)
CleanFavDone ==
    /\ pc = "clean_fav"
    /\ Exhausted
    /\ pc' = "clean_loop"
    /\ DropGen
    /\ book_ids' = SortedInts(SetToSeq(PurchasedItems(shelf_books, favourite_books)))
    /\ UNCHANGED <<action, token_file, authorization, stdout, stderr, listed,
                   shelf_books, favourite_books, book_id, failed_count, lookups,
                   unfav, response>>

\* the body of the for loop: the post to Book/UnFav and the confirmation line
CleanUnfav ==
    /\ pc = "clean_loop"
    /\ book_ids # <<>>
    /\ unfav' = Append(unfav, Head(book_ids))
    /\ stdout' = Append(stdout, [text |-> "Unfavourite purchased book: ", id |-> Head(book_ids)])
    /\ book_ids' = Tail(book_ids)
    /\ UNCHANGED <<pc, action, token_file, authorization, stderr, genVars, listed,
                   shelf_books, favourite_books, book_id, failed_count, lookups,
                   response>>

CleanEnd ==
    /\ pc = "clean_loop"
    /\ book_ids = <<>>
    /\ pc' = "done"
    /\ UNCHANGED <<action, token_file, authorization, stdout, stderr, genVars,
                   listed, shelf_books, favourite_books, book_ids, book_id,
                   failed_count, lookups, unfav, response>>

InitClean == InitFor("clean-favourite")

NextClean ==
    \/ Main
    \/ Query
    \/ PageEnd
    \/ CleanStart
    \/ CleanShelfItem
    \/ CleanShelfDone
    \/ CleanFavItem
    \/ CleanFavDone
    \/ CleanUnfav
    \/ CleanEnd

SpecClean == InitClean /\ [][NextClean]_vars

-----------------------------------------------------------------------------
(* report. *)

\* writer.writeheader() of the DictWriter with fields id, name, kind
ReportHeader == [header |-> <<"id", "name", "kind">>]

\* the maps are built (nothing is fetched yet) and the header is written
ReportStart ==
    /\ pc = "report"
    /\ pc' = "report_shelf"
    /\ stdout' = Append(stdout, ReportHeader)
    /\ StartGen(Shelf)
    /\ shelf_books' = <<>>
    /\ favourite_books' = <<>>
    /\ UNCHANGED <<action, token_file, authorization, stderr, listed, book_ids,
                   book_id, failed_count, lookups, unfav, response>>

\* sorted(shelf_books, ...) takes an item of the map over get_book_shelf()
ReportShelfItem ==
    /\ pc = "report_shelf"
    /\ CanYield
    /\ Yield
    /\ shelf_books' = Append(shelf_books, make_extract_book_item("shelf", Head(gen_items)))
    /\ UNCHANGED <<pc, action, token_file, authorization, stdout, stderr,
                   favourite_books, book_ids, book_id, failed_count, lookups,
                   unfav, response>>

\* writer.writerows(sorted(shelf_books, key=extract_book_item))
ReportShelfDone ==
    /\ pc = "report_shelf"
    /\ Exhausted
    /\ pc' = "report_fav"
    /\ stdout' = stdout \o SortedRows(shelf_books)
    /\ shelf_books' = <<>>
    /\ StartGen(Fav)
    /\ UNCHANGED <<action, token_file, authorization, stderr, listed,
                   favourite_books, book_ids, book_id, failed_count, lookups,
                   unfav, response>>

\* sorted(favourite_books, ...) takes an item of the map over get_favourite()
ReportFavItem ==
    /\ pc = "report_fav"
    /\ CanYield
    /\ Yield
    /\ favourite_books' =
           Append(favourite_books, make_extract_book_item("favourite", Head(gen_items)))
    /\ UNCHANGED <<pc, action, token_file, authorization, stdout, stderr,
                   shelf_books, book_ids, book_id, failed_count, lookups, unfav,
                   response>>

\* writer.writerows(sorted(favourite_books, key=extract_book_item))
ReportFavDone ==
    /\ pc = "report_fav"
    /\ Exhausted
    /\ pc' = "done"
    /\ stdout' = stdout \o SortedRows(favourite_books)
    /\ favourite_books' = <<>>
    /\ DropGen
    /\ UNCHANGED <<action, token_file, authorization, stderr, listed, shelf_books,
                   book_ids, book_id, failed_count, lookups, unfav, response>>

InitReport == InitFor("report")

NextReport ==
    \/ Main
    \/ Query
    \/ PageEnd
    \/ ReportStart
    \/ ReportShelfItem
    \/ ReportShelfDone
    \/ ReportFavItem
    \/ ReportFavDone

SpecReport == InitReport /\ [][NextReport]_vars

-----------------------------------------------------------------------------
(* get_book and the book details. *)

\* the ids the catalogue may hold a book for
CatalogIds == (1..MaxBookId) \cup BookIds

\* supportPdf, supportEpub, supportMobi as the server may report them for a book
SupportOf(id) ==
    CASE id = 2 -> {<<TRUE, TRUE, FALSE>>, <<FALSE, FALSE, FALSE>>, <<TRUE, FALSE, TRUE>>}
      [] id = 99999 -> {<<TRUE, TRUE, TRUE>>, <<FALSE, TRUE, FALSE>>, <<FALSE, FALSE, TRUE>>}
      [] id = 100000 -> {<<FALSE, TRUE, TRUE>>, <<TRUE, FALSE, FALSE>>}
      [] OTHER -> {<<TRUE, TRUE, TRUE>>, <<FALSE, FALSE, FALSE>>}

\* publishDate: a timestamp, or nothing
PublishDateOf(id) ==
    IF id = 1 THEN <<>>
    ELSE <<"2", "0", "1", "5", "-", "0", "1", "-", "0", "2",
           "T", "0", "0", ":", "0", "0", ":", "0", "0">>

\* the detail record of Book/<id>
Detail(id, support) ==
    [found |-> TRUE,
     id |-> id,
     name |-> NameOf(id),
     encrypt |-> <<"k">> \o ToDigits(id),
     publishDate |-> PublishDateOf(id),
     presale |-> (id = 1),
     canSalePaper |-> (id % 2 = 0),
     supportPdf |-> support[1],
     supportEpub |-> support[2],
     supportMobi |-> support[3],
     supportPushMobi |-> (id # 99999),
     tupubBookId |-> (id # 100000)]

\* what get_book returns for a 404
NotFound == [found |-> FALSE]

\* get_book(book_id): the results the server's answer may lead to
get_book(id) ==
    {NotFound} \cup
    (IF id \in CatalogIds THEN {Detail(id, sup) : sup \in SupportOf(id)} ELSE {})

-----------------------------------------------------------------------------
(* fetch and download_book. *)

\* make_link(kind) inside download_book(book_id), payload being the detail
make_link(id, detail, kind) ==
    <<id,
      [encrypt |-> detail.encrypt, type |-> kind],
      <<"[">> \o Format05d(id) \o <<"]", " ">>
          \o Remove(Strip(detail.name), "/") \o <<".">> \o Lower(kind)>>

\* the links in another order: MOBI before EPUB
download_book_mobi_early(id, detail) ==
    (IF detail.supportPdf THEN <<make_link(id, detail, "PDF")>> ELSE <<>>)
    \o (IF detail.supportMobi THEN <<make_link(id, detail, "MOBI")>> ELSE <<>>)
    \o (IF detail.supportEpub THEN <<make_link(id, detail, "EPUB")>> ELSE <<>>)

\* what download_book(book_id) yields once get_book has returned detail
download_book(id, detail) ==
    (IF detail.supportPdf THEN <<make_link(id, detail, "PDF")>> ELSE <<>>)
    \o (IF detail.supportEpub THEN <<make_link(id, detail, "EPUB")>> ELSE <<>>)
    \o (IF detail.supportMobi THEN <<make_link(id, detail, "MOBI")>> ELSE <<>>)

\* the options of one directive block, printed joined by "\n\t"
Block(link) ==
    [link |-> link[2],
     header |-> authorization.token,
     referer |-> link[1],
     out |-> <<"e", "b", "o", "o", "k", "s", "/">> \o link[3]]

\* the generator expression is built: sorted(book_ids) starts draining the shelf
FetchStart ==
    /\ pc = "fetch"
    /\ pc' = "fetch_shelf"
    /\ StartGen(Shelf)
    /\ book_ids' = <<>>
    /\ UNCHANGED <<action, token_file, authorization, stdout, stderr, listed,
                   shelf_books, favourite_books, book_id, failed_count, lookups,
                   unfav, response>>

FetchShelfItem ==
    /\ pc = "fetch_shelf"
    /\ CanYield
    /\ Yield
    /\ book_ids' = Append(book_ids, extract_book_item(Head(gen_items)))
    /\ UNCHANGED <<pc, action, token_file, authorization, stdout, stderr,
                   shelf_books, favourite_books, book_id, failed_count, lookups,
                   unfav, response>>

FetchShelfDone ==
    /\ pc = "fetch_shelf"
    /\ Exhausted
    /\ pc' = "fetch_loop"
    /\ book_ids' = SortedInts(book_ids)
    /\ DropGen
    /\ UNCHANGED <<action, token_file, authorization, stdout, stderr, listed,
                   shelf_books, favourite_books, book_id, failed_count, lookups,
                   unfav, response>>

\* one book of the loop: download_book looks it up and yields its links, each
\* printed as a block.  A lookup that returned None raises at payload["supportPdf"];
\* a session without Authorization raises when the first block is formatted.
FetchBook ==
    /\ pc = "fetch_loop"
    /\ book_ids # <<>>
    /\ \E detail \in get_book(Head(book_ids)) :
          /\ lookups' = Append(lookups, <<Head(book_ids), detail>>)
          /\ IF ~detail.found
             THEN pc' = "crashed" /\ UNCHANGED <<stdout, book_ids>>
             ELSE LET links == download_book(Head(book_ids), detail)
                  IN  IF links # <<>> /\ ~authorization.set
                      THEN pc' = "crashed" /\ UNCHANGED <<stdout, book_ids>>
                      ELSE /\ pc' = pc
                           /\ stdout' = stdout \o [i \in 1..Len(links) |-> Block(links[i])]
                           /\ book_ids' = Tail(book_ids)
    /\ UNCHANGED <<action, token_file, authorization, stderr, genVars, listed,
                   shelf_books, favourite_books, book_id, failed_count, unfav,
                   response>>

FetchEnd ==
    /\ pc = "fetch_loop"
    /\ book_ids = <<>>
    /\ pc' = "done"
    /\ UNCHANGED <<action, token_file, authorization, stdout, stderr, genVars,
                   listed, shelf_books, favourite_books, book_ids, book_id,
                   failed_count, lookups, unfav, response>>

InitFetch == InitFor("fetch")

NextFetch ==
    \/ Main
    \/ Query
    \/ PageEnd
    \/ FetchStart
    \/ FetchShelfItem
    \/ FetchShelfDone
    \/ FetchBook
    \/ FetchEnd

SpecFetch == InitFetch /\ [][NextFetch]_vars

-----------------------------------------------------------------------------
(* push_books. *)

\* the three lines printed for a book
PushLines(book, detail) ==
    <<<<"echo", Format05d(book.id) \o <<" ", "P", "u", "s", "h", " ", "b", "o", "o", "k">>>>,
      <<"curl", authorization.token,
        IF detail.tupubBookId THEN "PushBook" ELSE "PushMiniBook", book.id>>,
      <<"echo">>>>

PushStart ==
    /\ pc = "push-books"
    /\ pc' = "push_loop"
    /\ StartGen(Shelf)
    /\ UNCHANGED <<action, token_file, authorization, stdout, stderr, listed,
                   shelf_books, favourite_books, book_ids, book_id, failed_count,
                   lookups, unfav, response>>

\* the loop body for the next shelf item.  A lookup that returned None raises at
\* payload["tupubBookId"]; a session without Authorization raises at the auth line.
PushBook ==
    /\ pc = "push_loop"
    /\ CanYield
    /\ Yield
    /\ \E detail \in get_book(Head(gen_items).id) :
          /\ lookups' = Append(lookups, <<Head(gen_items).id, detail>>)
          /\ IF ~detail.found \/ ~authorization.set
             THEN pc' = "crashed" /\ stdout' = stdout
             ELSE pc' = pc /\ stdout' = stdout \o PushLines(Head(gen_items), detail)
    /\ UNCHANGED <<action, token_file, authorization, stderr, shelf_books,
                   favourite_books, book_ids, book_id, failed_count, unfav,
                   response>>

PushEnd ==
    /\ pc = "push_loop"
    /\ Exhausted
    /\ pc' = "done"
    /\ DropGen
    /\ UNCHANGED <<action, token_file, authorization, stdout, stderr, listed,
                   shelf_books, favourite_books, book_ids, book_id, failed_count,
                   lookups, unfav, response>>

InitPush == InitFor("push-books")

NextPush ==
    \/ Main
    \/ Query
    \/ PageEnd
    \/ PushStart
    \/ PushBook
    \/ PushEnd

SpecPush == InitPush /\ [][NextPush]_vars

-----------------------------------------------------------------------------
(* all_books and get_book_flags. *)

\* the threshold of the test on failed_count
FailLimit == 1000

\* the length publishDate is cut to
DateLen == 10

\* get_book_flags(payload), as a list
get_book_flags(detail) ==
    (IF detail.presale THEN <<"pre-sale">> ELSE <<>>)
    \o (IF detail.canSalePaper THEN <<"paper">> ELSE <<>>)
    \o (IF detail.supportPdf THEN <<"pdf">> ELSE <<>>)
    \o (IF detail.supportEpub THEN <<"epub">> ELSE <<>>)
    \o (IF detail.supportMobi THEN <<"mobi">> ELSE <<>>)
    \o (IF detail.supportPushMobi THEN <<"push-mobi">> ELSE <<>>)

\* the row written for a book that was found
AllBooksRow(detail) ==
    [id |-> detail.id,
     name |-> Strip(detail.name),
     published |-> IF detail.publishDate # <<>>
                   THEN SubSeq(detail.publishDate, 1, DateLen)
                   ELSE detail.publishDate,
     flags |-> get_book_flags(detail)]

AllBooksHeader == [header |-> <<"id", "name", "published", "flags">>]

\* if failed_count > 1000: break
OverLimit(count) == count > FailLimit

\* a counter that a success does not reset
AfterFoundKeeps(count) == count

\* failed_count after a lookup that found the book
AfterFound(count) == 0

\* failed_count after a lookup that did not
AfterNotFound(count) == count + 1

\* the id the diagnostic line names: book_id, read after book_id += 1
IgnoredId(looked_up) == looked_up + 1

AllBooksStart ==
    /\ pc = "all-books"
    /\ pc' = "all_loop"
    /\ stdout' = Append(stdout, AllBooksHeader)
    /\ book_id' = 1
    /\ failed_count' = 0
    /\ UNCHANGED <<action, token_file, authorization, stderr, genVars, listed,
                   shelf_books, favourite_books, book_ids, lookups, unfav,
                   response>>

AllBooksBreak ==
    /\ pc = "all_loop"
    /\ OverLimit(failed_count)
    /\ pc' = "done"
    /\ UNCHANGED <<action, token_file, authorization, stdout, stderr, genVars,
                   listed, shelf_books, favourite_books, book_ids, book_id,
                   failed_count, lookups, unfav, response>>

\* one pass of the loop body
AllBooksLookup ==
    /\ pc = "all_loop"
    /\ ~OverLimit(failed_count)
    /\ \E detail \in get_book(book_id) :
          /\ lookups' = Append(lookups, <<book_id, detail>>)
          /\ book_id' = book_id + 1
          /\ IF ~detail.found
             THEN /\ stderr' = Append(stderr, [text |-> "# ignored #", id |-> IgnoredId(book_id)])
                  /\ failed_count' = AfterNotFound(failed_count)
                  /\ stdout' = stdout
             ELSE /\ failed_count' = AfterFound(failed_count)
                  /\ stdout' = Append(stdout, AllBooksRow(detail))
                  /\ stderr' = stderr
    /\ UNCHANGED <<pc, action, token_file, authorization, genVars, listed,
                   shelf_books, favourite_books, book_ids, unfav, response>>

InitAllBooks == InitFor("all-books")

NextAllBooks ==
    \/ Main
    \/ AllBooksStart
    \/ AllBooksBreak
    \/ AllBooksLookup

SpecAllBooks == InitAllBooks /\ [][NextAllBooks]_vars

-----------------------------------------------------------------------------
(* login. *)

OK == 200

\* the status codes of a refused login
Refused == {400, 500}

ErrorMessage == <<"b", "a", "d">>

\* the authentication responses: isJson is whether response.json() parses
Responses ==
    {[status |-> OK, isJson |-> TRUE, hasToken |-> TRUE, accessToken |-> t,
      hasMessage |-> FALSE, message |-> <<>>] : t \in Tokens}
    \cup {[status |-> OK, isJson |-> TRUE, hasToken |-> FALSE, accessToken |-> <<>>,
           hasMessage |-> FALSE, message |-> <<>>]}
    \cup {[status |-> st, isJson |-> TRUE, hasToken |-> FALSE, accessToken |-> <<>>,
           hasMessage |-> m, message |-> IF m THEN ErrorMessage ELSE <<>>] :
             st \in Refused, m \in BOOLEAN}
    \cup {[status |-> st, isJson |-> FALSE, hasToken |-> FALSE, accessToken |-> <<>>,
           hasMessage |-> FALSE, message |-> <<>>] : st \in Refused}

\* a test that knows one refusal only
LoginRejectedOn400(resp) == resp.status = 400

\* if response.status_code != 200
LoginRejected(resp) == resp.status # OK

\* the two input() calls, the post, and payload = response.json()
LoginPost ==
    /\ pc = "login"
    /\ \E resp \in Responses :
          /\ response' = resp
          /\ pc' = IF resp.isJson THEN "login_check" ELSE "crashed"
    /\ UNCHANGED <<action, token_file, authorization, stdout, stderr, genVars,
                   listed, shelf_books, favourite_books, book_ids, book_id,
                   failed_count, lookups, unfav>>

\* the status test: print(payload["message"], file=sys.stderr); return
LoginCheck ==
    /\ pc = "login_check"
    /\ IF LoginRejected(response)
       THEN IF response.hasMessage
            THEN pc' = "done" /\ stderr' = Append(stderr, response.message)
            ELSE pc' = "crashed" /\ stderr' = stderr
       ELSE pc' = "login_open" /\ stderr' = stderr
    /\ UNCHANGED <<action, token_file, authorization, stdout, genVars, listed,
                   shelf_books, favourite_books, book_ids, book_id, failed_count,
                   lookups, unfav, response>>

\* open(token_path, "w"): the file is created, or truncated
LoginOpen ==
    /\ pc = "login_open"
    /\ pc' = "login_dump"
    /\ token_file' = File(<<>>)
    /\ UNCHANGED <<action, authorization, stdout, stderr, genVars, listed,
                   shelf_books, favourite_books, book_ids, book_id, failed_count,
                   lookups, unfav, response>>

\* json.dump(payload["accessToken"], fp) and the end of the with block; a payload
\* without accessToken raises before anything is written
LoginDump ==
    /\ pc = "login_dump"
    /\ IF response.hasToken
       THEN pc' = "login_print" /\ token_file' = File(JsonDump(response.accessToken))
       ELSE pc' = "crashed" /\ token_file' = token_file
    /\ UNCHANGED <<action, authorization, stdout, stderr, genVars, listed,
                   shelf_books, favourite_books, book_ids, book_id, failed_count,
                   lookups, unfav, response>>

\* print("login done")
LoginPrint ==
    /\ pc = "login_print"
    /\ pc' = "done"
    /\ stdout' = Append(stdout, "login done")
    /\ UNCHANGED <<action, token_file, authorization, stderr, genVars, listed,
                   shelf_books, favourite_books, book_ids, book_id, failed_count,
                   lookups, unfav, response>>

\* the process has ended and the command is run again: only the token file stays
Rerun ==
    /\ pc \in {"done", "crashed"}
    /\ pc' = "main"
    /\ authorization' = NoAuth
    /\ stdout' = <<>>
    /\ stderr' = <<>>
    /\ response' = [status |-> 0]
    /\ UNCHANGED <<action, token_file, genVars, listed, shelf_books,
                   favourite_books, book_ids, book_id, failed_count, lookups,
                   unfav>>

InitLogin == InitFor("login")

NextLogin ==
    \/ Main
    \/ LoginPost
    \/ LoginCheck
    \/ LoginOpen
    \/ LoginDump
    \/ LoginPrint
    \/ Rerun

SpecLogin == InitLogin /\ [][NextLogin]_vars

-----------------------------------------------------------------------------
(* Properties of the paged fetcher. *)

RECURSIVE ItemsOf(_)
\* the bookItems of a sequence of envelopes, one after the other
ItemsOf(envs) ==
    IF envs = <<>> THEN <<>>
    ELSE ItemsOf(SubSeq(envs, 1, Len(envs) - 1)) \o envs[Len(envs)].bookItems

\* C1: a generator of expand_paging requests the pages 1, 2, 3, ... each once,
\* requests nothing after the first envelope with isLastPage, ends only on such
\* an envelope, and yields the items of the requested pages once each, in the
\* order the server gave them.
C1_PagingInOrder ==
    /\ Len(served) = Len(queries)
    /\ \A i \in 1..Len(queries) : queries[i] = i
    /\ \A i \in 1..(Len(served) - 1) : ~served[i].isLastPage
    /\ gen_state = "query" => index = Len(queries) + 1
    /\ yielded \o gen_items = ItemsOf(served)
    /\ Exhausted => /\ served # <<>>
                    /\ served[Len(served)].isLastPage
                    /\ yielded = ItemsOf(served)

\* a generator that ended after two pages, the first one carrying two items
C1_Witness ==
    /\ Exhausted
    /\ Len(queries) = 2
    /\ Len(served[1].bookItems) = 2
    /\ Len(yielded) >= 3

-----------------------------------------------------------------------------
(* Properties of clean_favourite. *)

\* the ids the server listed on an endpoint
ListedIds(ep) == {i \in BookIds : listed[ep][i] > 0}

\* the confirmation line printed for an id
Confirmation(id) == [text |-> "Unfavourite purchased book: ", id |-> id]

\* C5: the unfavourite requests go to ids that are both on the shelf and among
\* the favourites, in ascending order and so once each, with one confirmation
\* line per request; at the end every such id has had its request.
C5_UnfavouriteIntersection ==
    action = "clean-favourite" =>
        /\ \A i \in 1..Len(unfav) : unfav[i] \in ListedIds(Shelf) \cap ListedIds(Fav)
        /\ \A i \in 1..(Len(unfav) - 1) : unfav[i] < unfav[i + 1]
        /\ stdout = [i \in 1..Len(unfav) |-> Confirmation(unfav[i])]
        /\ pc = "done" =>
              {unfav[i] : i \in 1..Len(unfav)} = ListedIds(Shelf) \cap ListedIds(Fav)

\* a finished run with duplicates in both listings, two ids in both and an id
\* on the shelf only
C5_Witness ==
    /\ action = "clean-favourite"
    /\ pc = "done"
    /\ Len(unfav) = 2
    /\ \E i \in BookIds : listed[Shelf][i] >= 2
    /\ \E i \in BookIds : listed[Fav][i] >= 2
    /\ ListedIds(Shelf) \ ListedIds(Fav) # {}

-----------------------------------------------------------------------------
(* Properties of all_books. *)

\* whether the i-th lookup found its book
Found(i) == lookups[i][2].found

\* the number of lookups made since the last one that found a book
MissesAtEnd ==
    LET hits == {i \in 1..Len(lookups) : Found(i)}
    IN  Len(lookups) - (IF hits = {} THEN 0 ELSE CHOOSE i \in hits : \A j \in hits : j <= i)

\* the ids of the lookups that found, respectively did not find, a book, in order
FoundIds == SelectSeq([i \in 1..Len(lookups) |-> IF Found(i) THEN lookups[i][1] ELSE 0],
                      LAMBDA id : id # 0)
MissedIds == SelectSeq([i \in 1..Len(lookups) |-> IF Found(i) THEN 0 ELSE lookups[i][1]],
                       LAMBDA id : id # 0)

\* the rows of a CSV output: what follows the header
Rows == SubSeq(stdout, 2, Len(stdout))

\* C2: all-books ends once 1000 lookups in a row have found nothing: in a
\* finished run exactly 1000 lookups follow the last successful one.
C2_StopsAfter1000Misses ==
    (action = "all-books" /\ pc = "done") => MissesAtEnd = FailLimit

\* C3: the ids are looked up in the order 1, 2, 3, ...; failed_count is the
\* number of lookups since the last successful one (reset by a success, one more
\* with each miss); the rows are those of the ids that were found, in ascending
\* order; and after 1001 misses in a row no further lookup is made, so with ids
\* 1..n found and the 1001 next ones missing the run ends with exactly n rows.
C3_RowsForFoundIds ==
    action = "all-books" /\ pc \in {"all_loop", "done"} =>
        /\ \A i \in 1..Len(lookups) : lookups[i][1] = i
        /\ book_id = Len(lookups) + 1
        /\ failed_count = MissesAtEnd
        /\ MissesAtEnd <= FailLimit + 1
        /\ stdout[1] = AllBooksHeader
        /\ [i \in 1..Len(Rows) |-> Rows[i].id] = FoundIds
        /\ \A i \in 1..(Len(Rows) - 1) : Rows[i].id < Rows[i + 1].id
        /\ pc = "done" => MissesAtEnd = FailLimit + 1
        /\ \A n \in 0..MaxBookId :
              (/\ Len(lookups) = n + FailLimit + 1
               /\ \A i \in 1..Len(lookups) : Found(i) <=> i <= n)
              => /\ Len(Rows) = n
                 /\ pc = "done" \/ ENABLED AllBooksBreak
                 /\ ~ENABLED AllBooksLookup

\* a finished run in which the first MaxBookId ids were found and, before that,
\* nothing else: the header, then one row per id
C3_Witness ==
    /\ action = "all-books"
    /\ pc = "done"
    /\ Len(Rows) = 2
    /\ Found(1) /\ Found(2)
    /\ Len(lookups) = 2 + FailLimit + 1

\* a finished run with a miss between two hits: the counter was reset
C3_WitnessReset ==
    /\ action = "all-books"
    /\ pc = "done"
    /\ ~Found(1) /\ Found(2)

\* C10: every lookup that finds nothing prints one diagnostic line, and the
\* line names the id that was looked up.
C10_DiagnosticNamesId ==
    action = "all-books" =>
        stderr = [i \in 1..Len(MissedIds) |-> [text |-> "# ignored #", id |-> MissedIds[i]]]

-----------------------------------------------------------------------------
(* Properties of report. *)

\* C4: report prints the header id,name,kind first, then the shelf rows, then
\* the favourite rows, and the rows of either block are in ascending order of
\* their numeric id.
C4_BlocksSortedByNumericId ==
    (action = "report" /\ stdout # <<>>) =>
        /\ stdout[1] = [header |-> <<"id", "name", "kind">>]
        /\ \A i \in 1..(Len(Rows) - 1) :
              /\ ~(Rows[i].kind = "favourite" /\ Rows[i + 1].kind = "shelf")
              /\ Rows[i].kind = Rows[i + 1].kind
                    => ParseInt(Rows[i].id) <= ParseInt(Rows[i + 1].id)

-----------------------------------------------------------------------------
(* Properties of the callers of get_book. *)

\* C7: a lookup that finds nothing is an ordinary result for fetch: the action
\* does not end in an error because of it.
C7_NotFoundIsNotFatal ==
    (action = "fetch" /\ lookups # <<>> /\ ~Found(Len(lookups))) => pc # "crashed"

\* C7, for push-books: the same, checked under SpecPush
C7_NotFoundIsNotFatalPush ==
    (action = "push-books" /\ lookups # <<>> /\ ~Found(Len(lookups))) => pc # "crashed"

-----------------------------------------------------------------------------
(* Properties of fetch. *)

Kinds == <<"PDF", "EPUB", "MOBI">>

\* the lookups whose book has been dealt with
Completed == IF pc = "crashed" THEN SubSeq(lookups, 1, Len(lookups) - 1) ELSE lookups

\* whether the detail reports the format as supported
Supports(detail, kind) ==
    CASE kind = "PDF" -> detail.supportPdf
      [] kind = "EPUB" -> detail.supportEpub
      [] kind = "MOBI" -> detail.supportMobi

\* for each completed lookup and each format in the order PDF, EPUB, MOBI, a
\* pair <<lookup, format>>; then those of them whose format is supported
Slots == [j \in 1..(3 * Len(Completed)) |-> <<((j - 1) \div 3) + 1, Kinds[((j - 1) % 3) + 1]>>]
SupportedSlots == SelectSeq(Slots, LAMBDA sl : Supports(Completed[sl[1]][2], sl[2]))

\* the decimal digits of n, filled with zeros on the left up to five places
Exp10(k) == IF k = 0 THEN 1 ELSE IF k = 1 THEN 10 ELSE IF k = 2 THEN 100
            ELSE IF k = 3 THEN 1000 ELSE IF k = 4 THEN 10000 ELSE 100000
Padded(n) ==
    LET w == IF n >= 100000 THEN 6 ELSE 5
    IN  [p \in 1..w |-> Digit[((n \div Exp10(w - p)) % 10) + 1]]

\* the name without the blanks around it, and then without any "/"
Sanitized(name) ==
    LET solid == {i \in 1..Len(name) : name[i] # " "}
    IN  IF solid = {} THEN <<>>
        ELSE LET first == CHOOSE i \in solid : \A j \in solid : i <= j
                 last == CHOOSE i \in solid : \A j \in solid : j <= i
             IN  SelectSeq(SubSeq(name, first, last), LAMBDA c : c # "/")

Extension(kind) ==
    CASE kind = "PDF" -> <<".", "p", "d", "f">>
      [] kind = "EPUB" -> <<".", "e", "p", "u", "b">>
      [] kind = "MOBI" -> <<".", "m", "o", "b", "i">>

\* the output path the claim gives for a book and a format
OutPath(id, name, kind) ==
    <<"e", "b", "o", "o", "k", "s", "/", "[">> \o Padded(id) \o <<"]", " ">>
        \o Sanitized(name) \o Extension(kind)

\* how often an id occurs in a sequence of ids
Occurrences(seq, id) == Cardinality({i \in 1..Len(seq) : seq[i] = id})

\* C9: fetch reads the whole shelf before its first lookup, looks the shelf
\* books up in ascending order of id, and prints for each book that was looked
\* up one block per supported format, in the order PDF, EPUB, MOBI, each with
\* the book's id in its Referer and the output path ebooks/[id padded to five
\* digits] sanitized name.format in lower case.
C9_FetchBlocks ==
    action = "fetch" =>
        /\ gen_state # "idle" => lookups = <<>> /\ stdout = <<>>
        /\ pc \in {"fetch_loop", "done", "crashed"} =>
              \A id \in BookIds :
                  Occurrences([i \in 1..Len(Completed) |-> Completed[i][1]], id)
                      + Occurrences(book_ids, id) = listed[Shelf][id]
        /\ \A i \in 1..(Len(lookups) - 1) : lookups[i][1] <= lookups[i + 1][1]
        /\ pc \in {"fetch_loop", "done", "crashed"} =>
              \A i \in 1..Len(book_ids) :
                  /\ lookups # <<>> => lookups[Len(lookups)][1] <= book_ids[i]
                  /\ i < Len(book_ids) => book_ids[i] <= book_ids[i + 1]
        /\ Len(stdout) = Len(SupportedSlots)
        /\ \A j \in 1..Len(stdout) :
              LET look == Completed[SupportedSlots[j][1]]
                  kind == SupportedSlots[j][2]
              IN  /\ stdout[j].referer = look[1]
                  /\ stdout[j].link.type = kind
                  /\ stdout[j].out = OutPath(look[1], look[2].name, kind)

\* a finished fetch of three books, one of them with exactly two formats and one
\* with a six-digit id
C9_Witness ==
    /\ action = "fetch"
    /\ pc = "done"
    /\ Len(lookups) = 3
    /\ lookups[1][1] = 2
    /\ lookups[1][2].supportPdf /\ lookups[1][2].supportEpub /\ ~lookups[1][2].supportMobi
    /\ lookups[3][1] = 100000
    /\ Len(stdout) >= 4
    /\ stdout[1].out = <<"e", "b", "o", "o", "k", "s", "/", "[", "0", "0", "0", "0", "2", "]",
                         " ", "a", "b", ".", "p", "d", "f">>

-----------------------------------------------------------------------------
(* Properties of login and the token file. *)

\* a step of a login whose response was refused, or that has no response yet
C6_Step ==
    /\ response.status # OK => token_file' = token_file
    /\ token_file' # token_file => response.status = OK /\ response.isJson
    /\ (pc = "login_check" /\ response.status # OK /\ response.hasMessage) =>
          /\ pc' = "done"
          /\ stderr' = <<response.message>>
          /\ stdout' = <<>>
    /\ pc' = "login_print" =>
          /\ token_file'.exists
          /\ JsonLoad(token_file'.text) = [ok |-> TRUE, value |-> response.accessToken]

C8_TokenFileAlwaysLoadable ==
    token_file.exists => JsonLoad(token_file.text).ok

====
